---- MODULE Spec2Model ----
(***************************************************************************)
(* Insurance Fraud Detection API (backend/main.py).                        *)
(*                                                                         *)
(* A Python str is modelled as a sequence of one-character strings, so     *)
(* that strip(), lower(), split(',') and endswith() are computed and not   *)
(* assumed.  The text an extractor returns is modelled by what the six     *)
(* regular-expression searches of upload_claim find in it (one match       *)
(* object per pattern), or as the empty text.                              *)
(***************************************************************************)
EXTENDS Integers, Sequences, FiniteSets, TLC

\* ------------------------------------------------------------------ bounds
\* Longest enumerated capture of the hospital / disease / treatment patterns.
MaxLen == 1
\* Longest enumerated token captured by the amount pattern.
MaxTok == 2
\* Number of upload_claim requests the host serves.
NumReq == 2

\* ------------------------------------------------------- program constants
\* main.py line 117: if amount > 500000
Threshold == 500000

\* ----------------------------------------------------------- str methods
Whitespace == {" "}

UpperCase == <<"A","B","C","D","E","F","G","H","I","J","K","L","M",
               "N","O","P","Q","R","S","T","U","V","W","X","Y","Z">>
LowerCase == <<"a","b","c","d","e","f","g","h","i","j","k","l","m",
               "n","o","p","q","r","s","t","u","v","w","x","y","z">>

LowerChar(c) ==
    IF \E i \in 1..26 : UpperCase[i] = c
    THEN LowerCase[CHOOSE i \in 1..26 : UpperCase[i] = c]
    ELSE c

\* str.lower()
lower(s) == [i \in 1..Len(s) |-> LowerChar(s[i])]

RECURSIVE lstrip(_)
lstrip(s) ==
    IF s # <<>> /\ Head(s) \in Whitespace THEN lstrip(Tail(s)) ELSE s

RECURSIVE rstrip(_)
rstrip(s) ==
    IF s # <<>> /\ s[Len(s)] \in Whitespace
    THEN rstrip(SubSeq(s, 1, Len(s) - 1))
    ELSE s

\* str.strip()
strip(s) == rstrip(lstrip(s))

\* str.split(sep): the pieces between the separators, empty pieces kept.
RECURSIVE split(_, _)
split(s, sep) ==
    IF \A i \in 1..Len(s) : s[i] # sep
    THEN <<s>>
    ELSE LET k == CHOOSE i \in 1..Len(s) :
                      s[i] = sep /\ \A j \in 1..(i - 1) : s[j] # sep
         IN  <<SubSeq(s, 1, k - 1)>> \o split(SubSeq(s, k + 1, Len(s)), sep)

\* str.replace(old, ""), old a single character
RECURSIVE remove(_, _)
remove(s, old) ==
    IF s = <<>> THEN <<>>
    ELSE IF Head(s) = old THEN remove(Tail(s), old)
    ELSE <<Head(s)>> \o remove(Tail(s), old)

\* str.endswith(suffix)
endswith(s, suffix) ==
    /\ Len(s) >= Len(suffix)
    /\ SubSeq(s, Len(s) - Len(suffix) + 1, Len(s)) = suffix

Range(s) == {s[i] : i \in 1..Len(s)}

\* All sequences over alphabet of length 1..n.
RECURSIVE StringsUpTo(_, _)
StringsUpTo(alphabet, n) ==
    IF n = 0 THEN {}
    ELSE LET shorter == StringsUpTo(alphabet, n - 1)
         IN  {<<c>> : c \in alphabet} \cup shorter
             \cup {Append(s, c) : s \in shorter, c \in alphabet}

\* ------------------------------------------------------- reference tables
\* The mock data of load_hospitals (column HospitalName).
FallbackHospitals == <<
    <<"A","p","o","l","l","o"," ","H","o","s","p","i","t","a","l">>,
    <<"M","a","x"," ","H","e","a","l","t","h","c","a","r","e">>,
    <<"F","o","r","t","i","s"," ","H","o","s","p","i","t","a","l">>,
    <<"A","I","I","M","S">>,
    <<"M","a","n","i","p","a","l"," ","H","o","s","p","i","t","a","l">> >>

\* The mock data of load_diseases (columns Disease, Treatment).
FallbackDiseases == <<
    [Disease   |-> <<"D","i","a","b","e","t","e","s">>,
     Treatment |-> <<"I","n","s","u","l","i","n",","," ","M","e","t","f","o","r","m","i","n">>],
    [Disease   |-> <<"H","y","p","e","r","t","e","n","s","i","o","n">>,
     Treatment |-> <<"A","C","E"," ","I","n","h","i","b","i","t","o","r","s",","," ",
                     "D","i","u","r","e","t","i","c","s">>],
    [Disease   |-> <<"H","e","a","r","t"," ","D","i","s","e","a","s","e">>,
     Treatment |-> <<"B","y","p","a","s","s"," ","S","u","r","g","e","r","y",","," ",
                     "A","n","g","i","o","p","l","a","s","t","y">>],
    [Disease   |-> <<"C","a","n","c","e","r">>,
     Treatment |-> <<"C","h","e","m","o","t","h","e","r","a","p","y",","," ",
                     "R","a","d","i","a","t","i","o","n">>],
    [Disease   |-> <<"P","n","e","u","m","o","n","i","a">>,
     Treatment |-> <<"A","n","t","i","b","i","o","t","i","c","s",","," ",
                     "O","x","y","g","e","n"," ","T","h","e","r","a","p","y">>] >>

\* pd.DataFrame({'HospitalName': []}) and pd.DataFrame({'Disease': [], 'Treatment': []})
EmptyHospitals == <<>>
EmptyDiseases == <<>>

\* Contents of datasets/Hospital_Dataset.xlsx and
\* datasets/disease_treatment_dataset.xlsx when they are present and readable.
\* The second disease row is shadowed by the first for every spelling of "a".
SheetHospitals == << <<"a">>, <<"A","I","I","M","S">> >>
SheetDiseases == <<
    [Disease |-> <<"A">>, Treatment |-> <<"A"," ",",","a","a">>],
    [Disease |-> <<"a">>, Treatment |-> <<"R","a","d","i","a","t","i","o","n">>] >>

\* The external source of a table: absent, present but unreadable
\* (pd.read_excel or the column clean-up raises), or present and readable.
SourceStates == {"missing", "unreadable", "readable"}

Returned(v) == [raised |-> FALSE, value |-> v]
Raised == [raised |-> TRUE, value |-> <<>>]

\* load_hospitals without its try/except.
load_hospitals_unguarded(source) ==
    IF source = "missing" THEN Returned(FallbackHospitals)
    ELSE IF source = "readable" THEN Returned(SheetHospitals)
    ELSE Raised

load_hospitals(source) ==
    IF source = "missing" THEN Returned(FallbackHospitals)       \* not os.path.exists
    ELSE IF source = "readable" THEN Returned(SheetHospitals)    \* pd.read_excel
    ELSE Returned(FallbackHospitals)                             \* except Exception

load_diseases(source) ==
    IF source = "missing" THEN Returned(FallbackDiseases)
    ELSE IF source = "readable" THEN Returned(SheetDiseases)
    ELSE Returned(FallbackDiseases)

\* ------------------------------------------------------------ check_fraud
Fraudulent == "fraudulent"
Suspicious == "suspicious"
Clean == "clean"
HospitalReason == "Hospital not in dataset"
DiseaseReason == "Disease not in dataset"
TreatmentReason == "Treatment mismatch for disease"
AmountReason == "Unusually high claim amount"
CleanReason == "All checks passed."

Verdict(status, reason) == [fraudStatus |-> status, fraudReason |-> reason]

\* diseases_df[diseases_df['Disease'].str.lower() == disease.lower()]
disease_row(diseases, disease) ==
    SelectSeq(diseases, LAMBDA row : lower(row.Disease) = lower(disease))

\* [t.strip().lower() for t in valid_treatments_str.split(',')]
valid_treatments(valid_treatments_str) ==
    LET parts == split(valid_treatments_str, ",")
    IN  {lower(strip(parts[i])) : i \in 1..Len(parts)}

\* The claim record upload_claim builds (lines 234-241).
ClaimData(hospital, disease, treatment, amount, patientName, claimId) ==
    [hospital |-> hospital, disease |-> disease, treatment |-> treatment,
     amount |-> amount, patientName |-> patientName, claimId |-> claimId]

\* check_fraud with the amount rule tried before the three fraud rules.
check_fraud_amount_first(claim_data, hospitals, diseases) ==
    LET hospital_name == strip(claim_data.hospital)
        disease == strip(claim_data.disease)
        treatment == strip(claim_data.treatment)
        row == disease_row(diseases, disease)
    IN  IF claim_data.amount > Threshold
        THEN Verdict(Suspicious, AmountReason)
        ELSE IF hospital_name # <<>> /\ hospital_name \notin Range(hospitals)
        THEN Verdict(Fraudulent, HospitalReason)
        ELSE IF disease # <<>> /\ row = <<>>
        THEN Verdict(Fraudulent, DiseaseReason)
        ELSE IF /\ disease # <<>>
                /\ treatment # <<>>
                /\ lower(treatment) \notin valid_treatments(row[1].Treatment)
        THEN Verdict(Fraudulent, TreatmentReason)
        ELSE Verdict(Clean, CleanReason)

\* check_fraud with "hospital_name and" dropped from check 1 and
\* "if treatment" dropped from check 3.
check_fraud_empty_fails(claim_data, hospitals, diseases) ==
    LET hospital_name == strip(claim_data.hospital)
        disease == strip(claim_data.disease)
        treatment == strip(claim_data.treatment)
        row == disease_row(diseases, disease)
    IN  IF hospital_name \notin Range(hospitals)
        THEN Verdict(Fraudulent, HospitalReason)
        ELSE IF disease # <<>> /\ row = <<>>
        THEN Verdict(Fraudulent, DiseaseReason)
        ELSE IF /\ disease # <<>>
                /\ lower(treatment) \notin valid_treatments(row[1].Treatment)
        THEN Verdict(Fraudulent, TreatmentReason)
        ELSE IF claim_data.amount > Threshold
        THEN Verdict(Suspicious, AmountReason)
        ELSE Verdict(Clean, CleanReason)

\* check_fraud with "if disease" dropped: an empty disease is looked up too.
check_fraud_disease_unguarded(claim_data, hospitals, diseases) ==
    LET hospital_name == strip(claim_data.hospital)
        disease == strip(claim_data.disease)
        treatment == strip(claim_data.treatment)
        row == disease_row(diseases, disease)
    IN  IF hospital_name # <<>> /\ hospital_name \notin Range(hospitals)
        THEN Verdict(Fraudulent, HospitalReason)
        ELSE IF row = <<>>
        THEN Verdict(Fraudulent, DiseaseReason)
        ELSE IF /\ treatment # <<>>
                /\ lower(treatment) \notin valid_treatments(row[1].Treatment)
        THEN Verdict(Fraudulent, TreatmentReason)
        ELSE IF claim_data.amount > Threshold
        THEN Verdict(Suspicious, AmountReason)
        ELSE Verdict(Clean, CleanReason)

\* check_fraud with "amount >= 500000".
check_fraud_inclusive(claim_data, hospitals, diseases) ==
    LET hospital_name == strip(claim_data.hospital)
        disease == strip(claim_data.disease)
        treatment == strip(claim_data.treatment)
        row == disease_row(diseases, disease)
    IN  IF hospital_name # <<>> /\ hospital_name \notin Range(hospitals)
        THEN Verdict(Fraudulent, HospitalReason)
        ELSE IF disease # <<>> /\ row = <<>>
        THEN Verdict(Fraudulent, DiseaseReason)
        ELSE IF /\ disease # <<>>
                /\ treatment # <<>>
                /\ lower(treatment) \notin valid_treatments(row[1].Treatment)
        THEN Verdict(Fraudulent, TreatmentReason)
        ELSE IF claim_data.amount >= Threshold
        THEN Verdict(Suspicious, AmountReason)
        ELSE Verdict(Clean, CleanReason)

check_fraud(claim_data, hospitals, diseases) ==
    LET hospital_name == strip(claim_data.hospital)
        disease == strip(claim_data.disease)
        treatment == strip(claim_data.treatment)
        \* first row of the case-insensitive selection is disease_row.iloc[0]
        row == disease_row(diseases, disease)
    IN  \* Check 1
        IF hospital_name # <<>> /\ hospital_name \notin Range(hospitals)
        THEN Verdict(Fraudulent, HospitalReason)
        \* Check 2
        ELSE IF disease # <<>> /\ row = <<>>
        THEN Verdict(Fraudulent, DiseaseReason)
        \* Check 3
        ELSE IF /\ disease # <<>>
                /\ treatment # <<>>
                /\ lower(treatment) \notin valid_treatments(row[1].Treatment)
        THEN Verdict(Fraudulent, TreatmentReason)
        \* suspicious amounts
        ELSE IF claim_data.amount > Threshold
        THEN Verdict(Suspicious, AmountReason)
        ELSE Verdict(Clean, CleanReason)

\* -------------------------------------------------- amount: int(float(s))
\* One element standing for 309 consecutive characters '9': the shortest run
\* of digits whose value exceeds the largest finite float.
DigitRun == "9{309}"
Digits == <<"0","1","2","3","4","5","6","7","8","9">>
IsDigit(c) == c = DigitRun \/ \E i \in 1..10 : Digits[i] = c
DigitVal(c) == (CHOOSE i \in 1..10 : Digits[i] = c) - 1

RECURSIVE IntVal(_)
IntVal(ds) ==
    IF ds = <<>> THEN 0
    ELSE 10 * IntVal(SubSeq(ds, 1, Len(ds) - 1)) + DigitVal(ds[Len(ds)])

\* float(s) accepts, of the strings over digits and '.', those with at least
\* one digit and at most one '.'.
float_accepts(s) ==
    /\ \E i \in 1..Len(s) : IsDigit(s[i])
    /\ Cardinality({i \in 1..Len(s) : s[i] = "."}) <= 1
    /\ \A i \in 1..Len(s) : IsDigit(s[i]) \/ s[i] = "."

IntPart(s) == split(s, ".")[1]
FracPart(s) == IF Len(split(s, ".")) > 1 THEN split(s, ".")[2] ELSE <<>>

\* float(s) is inf: the integer part has more digits than a float can hold.
float_is_inf(s) == DigitRun \in Range(IntPart(s))

\* The fraction is within one float step of 1: float(s) is the next integer.
float_rounds_up(s) ==
    LET frac == FracPart(s)
    IN  \E k \in 1..Len(frac) :
            /\ frac[k] = DigitRun
            /\ \A j \in 1..(k - 1) : frac[j] \in {"9", DigitRun}

NoError == "none"
ValueError == "ValueError"
OverflowError == "OverflowError"
Outcome(exc, v) == [exc |-> exc, value |-> v]

\* int(float(amount_str)) for an amount_str that float() accepts or rejects.
int_float(amount_str) ==
    IF ~float_accepts(amount_str) THEN Outcome(ValueError, 0)
    ELSE IF float_is_inf(amount_str) THEN Outcome(OverflowError, 0)
    ELSE Outcome(NoError, IntVal(IntPart(amount_str))
                          + (IF float_rounds_up(amount_str) THEN 1 ELSE 0))

\* Lines 222-226: amount_str = group(1).replace(",", "").strip();
\* try: amount = int(float(amount_str)) except ValueError: amount = 0
parse_amount(token) ==
    LET amount_str == strip(remove(token, ","))
        r == int_float(amount_str)
    IN  IF r.exc = ValueError THEN Outcome(NoError, 0) ELSE r

\* ------------------------------------------------------------ re.search
\* The result of one re.search over the text: None, or a match whose
\* group(1) is a non-empty capture.
NoMatch == [matched |-> FALSE, group |-> <<>>]
Match(g) == [matched |-> TRUE, group |-> g]

\* m.group(1).strip().split('\n')[0] if m else ""
first_line_of(m) ==
    IF m.matched THEN split(strip(m.group), "\n")[1] ELSE <<>>

\* The extracted text: empty, or what the six searches find in it.
Text(h, d, t, a, p, c) ==
    [empty |-> FALSE, hospital_match |-> h, disease_match |-> d,
     treatment_match |-> t, amount_match |-> a,
     patient_name_match |-> p, claim_id_match |-> c]
EmptyText ==
    [empty |-> TRUE, hospital_match |-> NoMatch, disease_match |-> NoMatch,
     treatment_match |-> NoMatch, amount_match |-> NoMatch,
     patient_name_match |-> NoMatch, claim_id_match |-> NoMatch]

\* ------------------------------------------------------------- the state
VARIABLES
    main,             \* module level: "import" before line 156, then "serving"
    hospital_source,  \* state of datasets/Hospital_Dataset.xlsx
    disease_source,   \* state of datasets/disease_treatment_dataset.xlsx
    hospitals_df,     \* global hospitals_df
    diseases_df,      \* global diseases_df
    startup_failed,   \* the except branch of lines 160-163 was taken
    health,           \* the last answer of GET /health
    fs,               \* files of the working directory: {[path, content]}
    upload,           \* per request: the UploadFile (filename, document)
    pc,               \* per request: position in upload_claim
    text,             \* per request: local text
    claim_data,       \* per request: local claim_data
    raised,           \* per request: the exception leaving the try block
    response,         \* per request: what the caller receives
    log               \* per request: the steps taken, in order

vars == <<main, hospital_source, disease_source, hospitals_df, diseases_df,
          startup_failed, health, fs, upload, pc, text, claim_data, raised,
          response, log>>

Requests == 1..NumReq

\* ------------------------------------------------------------- the files
Exists(files, path) == \E f \in files : f.path = path
Content(files, path) == (CHOOSE f \in files : f.path = path).content
Written(files, path, content) ==
    {f \in files : f.path # path} \cup {[path |-> path, content |-> content]}
Removed(files, path) == {f \in files : f.path # path}

\* An uploaded document: its real format and the text a matching extractor
\* gets out of it (empty for a scan without text).
Document(format, txt) == [format |-> format, text |-> txt]

\* extract_text_from_pdf: pdfplumber fails on a missing file and on a file
\* that is no PDF; the except branch returns "".
extract_text_from_pdf(files, path) ==
    IF ~Exists(files, path) THEN EmptyText
    ELSE IF Content(files, path).format # "pdf" THEN EmptyText
    ELSE Content(files, path).text

\* extract_text_from_image: Image.open fails on a missing file and on a file
\* that is no image; the except branch returns "".
extract_text_from_image(files, path) ==
    IF ~Exists(files, path) THEN EmptyText
    ELSE IF Content(files, path).format # "image" THEN EmptyText
    ELSE Content(files, path).text

\* f"temp_{file.filename}"
temp_file_path(filename) == <<"t","e","m","p","_">> \o filename

\* open(temp_file_path, "wb") fails when the name has a directory part:
\* the working directory holds no directory temp_<...>.
open_fails(path) == "/" \in Range(path)

\* Lines 184-188.
extract_text(files, filename) ==
    IF endswith(lower(filename), <<".","p","d","f">>)
    THEN extract_text_from_pdf(files, temp_file_path(filename))
    ELSE extract_text_from_image(files, temp_file_path(filename))

\* ------------------------------------------------- exceptions, responses
NoException == [type |-> "none", status_code |-> 0, detail |-> ""]
HTTPException(status_code, detail) ==
    [type |-> "HTTPException", status_code |-> status_code, detail |-> detail]
Exception(type) == [type |-> type, status_code |-> 0, detail |-> type]

ExtractionDetail == "Failed to extract text from the document."
UnexpectedDetail == "An unexpected error occurred"

NoVerdict == Verdict("", "")
NoClaimData ==
    [fields |-> ClaimData(<<>>, <<>>, <<>>, 0, <<>>, <<>>), verdict |-> NoVerdict]

NoResponse == [status_code |-> 0, detail |-> "", extractedData |-> NoClaimData]
JSONResponse(content) ==
    [status_code |-> 200, detail |-> "", extractedData |-> content]
ErrorResponse(exc) ==
    [status_code |-> exc.status_code, detail |-> exc.detail,
     extractedData |-> NoClaimData]

\* Lines 204-241: the claim record of a non-empty text whose amount parsed.
parse_fields(txt, amount) ==
    ClaimData(first_line_of(txt.hospital_match),
              first_line_of(txt.disease_match),
              first_line_of(txt.treatment_match),
              amount,
              first_line_of(txt.patient_name_match),
              IF txt.claim_id_match.matched
              THEN strip(txt.claim_id_match.group) ELSE <<>>)

\* Lines 221-226: amount stays 0 without a match.
amount_of(txt) ==
    IF txt.amount_match.matched
    THEN parse_amount(txt.amount_match.group)
    ELSE Outcome(NoError, 0)

\* ------------------------------------------------------------ the inputs
Str_AIIMS == <<"A","I","I","M","S">>
Str_aiims == <<"a","i","i","m","s">>
Str_Apollo == <<"A","p","o","l","l","o"," ","H","o","s","p","i","t","a","l">>
Str_Diabetes == <<"D","i","a","b","e","t","e","s">>
Str_cancer == <<"c","a","n","c","e","r">>
Str_Insulin == <<"I","n","s","u","l","i","n">>
Str_Radiation_padded == <<" ","R","a","d","i","a","t","i","o","n"," ">>
Str_1000 == <<"1","0","0","0">>
Str_500000 == <<"5","0","0","0","0","0">>
Str_500001 == <<"5","0","0","0","0","1">>
Str_500000_9 == <<"5","0","0",",","0","0","0",".","9">>
Str_x_pdf == <<"x",".","p","d","f">>
Str_x_PDF == <<"x",".","P","D","F">>
Str_x_png == <<"x",".","p","n","g">>
Str_d_x_pdf == <<"d","/","x",".","p","d","f">>

\* Captures of (.+): the short strings over a small alphabet with both
\* cases and white space, and some names of the tables.
NameAlphabet == {"a", "A", " "}
ShortNames == StringsUpTo(NameAlphabet, MaxLen)
MatchesOf(S) == {NoMatch} \cup {Match(g) : g \in S}
HospitalMatches == MatchesOf(ShortNames \cup {Str_AIIMS, Str_aiims})
DiseaseMatches == MatchesOf(ShortNames \cup {Str_Diabetes, Str_cancer})
TreatmentMatches == MatchesOf(ShortNames \cup {Str_Insulin, Str_Radiation_padded})

\* Captures of ([0-9,\.]+): the short tokens, and amounts at the threshold.
TokenAlphabet == {"1", ",", ".", DigitRun}
ShortTokens == StringsUpTo(TokenAlphabet, MaxTok)
ThresholdAmounts == MatchesOf({Str_500000, Str_500001, Str_500000_9})

\* The texts of the documents: every combination of captures with an amount
\* at the threshold, and every short token with fixed captures.
Texts ==
    {Text(h, d, t, a, NoMatch, NoMatch) :
        h \in HospitalMatches, d \in DiseaseMatches,
        t \in TreatmentMatches, a \in ThresholdAmounts}
    \cup
    {Text(h, NoMatch, NoMatch, Match(a), NoMatch, NoMatch) :
        h \in {NoMatch, Match(Str_AIIMS)}, a \in ShortTokens}

Upload(filename, document) ==
    [present |-> TRUE, filename |-> filename, document |-> document]
NoUpload ==
    [present |-> FALSE, filename |-> <<>>, document |-> Document("pdf", EmptyText)]

\* The round trip of the documentation: a clean claim under the mock tables.
ApolloText ==
    Text(Match(Str_Apollo), Match(Str_Diabetes), Match(Str_Insulin),
         Match(Str_1000), Match(<<"A">>), Match(<<"7">>))
\* Known everywhere, and an amount above the threshold.
AiimsText ==
    Text(Match(Str_AIIMS), NoMatch, NoMatch, Match(Str_500001), NoMatch, NoMatch)
\* An amount of 309 digits.
HugeText ==
    Text(NoMatch, NoMatch, NoMatch, Match(<<DigitRun>>), NoMatch, NoMatch)

\* Uploads of the concurrent runs: three share the file name x.pdf.
SampleUploads ==
    { Upload(Str_x_pdf, Document("pdf", ApolloText)),
      Upload(Str_x_pdf, Document("pdf", AiimsText)),
      Upload(Str_x_pdf, Document("image", AiimsText)),
      Upload(Str_x_png, Document("image", AiimsText)),
      Upload(Str_x_PDF, Document("pdf", HugeText)),
      Upload(Str_d_x_pdf, Document("pdf", ApolloText)) }

\* One upload of any text, alone.
SingleUploads ==
    {[r \in Requests |->
        IF r = 1 THEN Upload(Str_x_pdf, Document("pdf", txt)) ELSE NoUpload] :
     txt \in Texts}

Init ==
    /\ main = "import"
    /\ hospital_source \in SourceStates
    /\ disease_source \in SourceStates
    /\ hospitals_df = <<>>
    /\ diseases_df = <<>>
    /\ startup_failed = FALSE
    /\ health = [status |-> "", hospitals_count |-> 0, diseases_count |-> 0]
    /\ fs = {}
    /\ \/ upload \in [Requests -> SampleUploads]
       \/ /\ upload \in SingleUploads
          /\ hospital_source = disease_source
    /\ pc = [r \in Requests |-> "start"]
    /\ text = [r \in Requests |-> EmptyText]
    /\ claim_data = [r \in Requests |-> NoClaimData]
    /\ raised = [r \in Requests |-> NoException]
    /\ response = [r \in Requests |-> NoResponse]
    /\ log = [r \in Requests |-> <<>>]

\* ----------------------------------------------------------- the actions
\* Lines 155-163: the module-level load.
Startup ==
    /\ main = "import"
    /\ LET h == load_hospitals(hospital_source)
           d == load_diseases(disease_source)
       IN  IF h.raised \/ d.raised
           THEN /\ hospitals_df' = EmptyHospitals
                /\ diseases_df' = EmptyDiseases
                /\ startup_failed' = TRUE
           ELSE /\ hospitals_df' = h.value
                /\ diseases_df' = d.value
                /\ startup_failed' = FALSE
    /\ main' = "serving"
    /\ UNCHANGED <<hospital_source, disease_source, health, fs, upload, pc,
                   text, claim_data, raised, response, log>>

\* Lines 169-171: GET /health.
health_check ==
    /\ main = "serving"
    /\ health' = [status |-> "healthy",
                  hospitals_count |-> Len(hospitals_df),
                  diseases_count |-> Len(diseases_df)]
    /\ UNCHANGED <<main, hospital_source, disease_source, hospitals_df,
                   diseases_df, startup_failed, fs, upload, pc, text,
                   claim_data, raised, response, log>>

Globals == <<main, hospital_source, disease_source, hospitals_df, diseases_df,
             startup_failed, health, upload>>

\* Lines 178-182: the upload is copied to temp_<filename>.
SaveUpload(r) ==
    /\ main = "serving"
    /\ upload[r].present
    /\ pc[r] = "start"
    /\ LET path == temp_file_path(upload[r].filename)
       IN  IF open_fails(path)
           THEN /\ raised' = [raised EXCEPT ![r] = Exception("FileNotFoundError")]
                /\ pc' = [pc EXCEPT ![r] = "except"]
                /\ fs' = fs
                /\ log' = [log EXCEPT ![r] = Append(@, "open failed")]
           ELSE /\ fs' = Written(fs, path, upload[r].document)
                /\ pc' = [pc EXCEPT ![r] = "extract"]
                /\ raised' = raised
                /\ log' = [log EXCEPT ![r] = Append(@, "saved")]
    /\ UNCHANGED <<Globals, text, claim_data, response>>

\* Lines 184-188: the text of whatever is at temp_<filename> now.
ExtractText(r) ==
    /\ pc[r] = "extract"
    /\ text' = [text EXCEPT ![r] = extract_text(fs, upload[r].filename)]
    /\ pc' = [pc EXCEPT ![r] = "parse"]
    /\ log' = [log EXCEPT ![r] = Append(@, "extracted")]
    /\ UNCHANGED <<Globals, fs, claim_data, raised, response>>

\* Lines 190-241: the empty-text error, the six searches, the claim record.
ParseFields(r) ==
    /\ pc[r] = "parse"
    /\ IF text[r].empty
       THEN /\ raised' = [raised EXCEPT ![r] = HTTPException(400, ExtractionDetail)]
            /\ pc' = [pc EXCEPT ![r] = "except"]
            /\ UNCHANGED <<claim_data, log>>
       ELSE LET a == amount_of(text[r])
            IN  IF a.exc # NoError
                THEN /\ raised' = [raised EXCEPT ![r] = Exception(a.exc)]
                     /\ pc' = [pc EXCEPT ![r] = "except"]
                     /\ UNCHANGED <<claim_data, log>>
                ELSE /\ claim_data' = [claim_data EXCEPT
                            ![r].fields = parse_fields(text[r], a.value)]
                     /\ pc' = [pc EXCEPT ![r] = "classify"]
                     /\ log' = [log EXCEPT ![r] = Append(@, "parsed")]
                     /\ raised' = raised
    /\ UNCHANGED <<Globals, fs, text, response>>

\* Lines 248-256 with a check_fraud that records the hospitals it has seen.
Classify_remembering(r) ==
    /\ pc[r] = "classify"
    /\ LET v == check_fraud(claim_data[r].fields, hospitals_df, diseases_df)
           data == [claim_data[r] EXCEPT !.verdict = v]
       IN  /\ claim_data' = [claim_data EXCEPT ![r] = data]
           /\ response' = [response EXCEPT ![r] = JSONResponse(data)]
    /\ hospitals_df' =
           IF claim_data[r].fields.hospital \in Range(hospitals_df)
           THEN hospitals_df
           ELSE Append(hospitals_df, claim_data[r].fields.hospital)
    /\ pc' = [pc EXCEPT ![r] = "finally"]
    /\ log' = [log EXCEPT ![r] = Append(@, "classified")]
    /\ UNCHANGED <<main, hospital_source, disease_source, diseases_df,
                   startup_failed, health, upload, fs, text, raised>>

\* Lines 248-256: check_fraud on the global tables, and the success payload.
Classify(r) ==
    /\ pc[r] = "classify"
    /\ LET v == check_fraud(claim_data[r].fields, hospitals_df, diseases_df)
           data == [claim_data[r] EXCEPT !.verdict = v]
       IN  /\ claim_data' = [claim_data EXCEPT ![r] = data]
           /\ response' = [response EXCEPT ![r] = JSONResponse(data)]
    /\ pc' = [pc EXCEPT ![r] = "finally"]
    /\ log' = [log EXCEPT ![r] = Append(@, "classified")]
    /\ UNCHANGED <<Globals, fs, text, raised>>

\* Lines 258-262 with the generic clause first.
HandleException_generic_first(r) ==
    /\ pc[r] = "except"
    /\ response' = [response EXCEPT ![r] =
            ErrorResponse(HTTPException(500, UnexpectedDetail))]
    /\ pc' = [pc EXCEPT ![r] = "finally"]
    /\ log' = [log EXCEPT ![r] = Append(@, "handled")]
    /\ UNCHANGED <<Globals, fs, text, claim_data, raised>>

\* Lines 258-262: an HTTPException is re-raised as it is, anything else
\* becomes the 500.
HandleException(r) ==
    /\ pc[r] = "except"
    /\ response' = [response EXCEPT ![r] =
            IF raised[r].type = "HTTPException"
            THEN ErrorResponse(raised[r])
            ELSE ErrorResponse(HTTPException(500, UnexpectedDetail))]
    /\ pc' = [pc EXCEPT ![r] = "finally"]
    /\ log' = [log EXCEPT ![r] = Append(@, "handled")]
    /\ UNCHANGED <<Globals, fs, text, claim_data, raised>>

\* Lines 263-269 as the last statement of the try block, not a finally.
Cleanup_on_success_only(r) ==
    /\ pc[r] = "finally"
    /\ LET path == temp_file_path(upload[r].filename)
       IN  IF Exists(fs, path) /\ raised[r] = NoException
           THEN /\ fs' = Removed(fs, path)
                /\ log' = [log EXCEPT ![r] = Append(@, "removed")]
           ELSE /\ fs' = fs
                /\ log' = [log EXCEPT ![r] = Append(@, "nothing to remove")]
    /\ pc' = [pc EXCEPT ![r] = "done"]
    /\ UNCHANGED <<Globals, text, claim_data, raised, response>>

\* Lines 263-269: the finally clause.
Cleanup(r) ==
    /\ pc[r] = "finally"
    /\ LET path == temp_file_path(upload[r].filename)
       IN  IF Exists(fs, path)
           THEN /\ fs' = Removed(fs, path)
                /\ log' = [log EXCEPT ![r] = Append(@, "removed")]
           ELSE /\ fs' = fs
                /\ log' = [log EXCEPT ![r] = Append(@, "nothing to remove")]
    /\ pc' = [pc EXCEPT ![r] = "done"]
    /\ UNCHANGED <<Globals, text, claim_data, raised, response>>

\* Lines 173-269: one step of the handler of request r.
upload_claim(r) ==
    \/ SaveUpload(r)
    \/ ExtractText(r)
    \/ ParseFields(r)
    \/ Classify(r)
    \/ HandleException(r)
    \/ Cleanup(r)

InFlight(r) == pc[r] \notin {"start", "done"}

\* One event loop (line 273): upload_claim has no await, so a handler runs
\* from its first line to its last before another one starts.
Turn(r) == \A q \in Requests \ {r} : ~InFlight(q)

Next ==
    \/ Startup
    \/ health_check /\ \A q \in Requests : ~InFlight(q)
    \/ \E r \in Requests : Turn(r) /\ SaveUpload(r)
    \/ \E r \in Requests : Turn(r) /\ ExtractText(r)
    \/ \E r \in Requests : Turn(r) /\ ParseFields(r)
    \/ \E r \in Requests : Turn(r) /\ Classify(r)
    \/ \E r \in Requests : Turn(r) /\ HandleException(r)
    \/ \E r \in Requests : Turn(r) /\ Cleanup(r)

Spec == Init /\ [][Next]_vars

\* Several worker processes on one working directory: the handlers of
\* different requests interleave step by step.
NextWorkers ==
    \/ Startup
    \/ health_check
    \/ \E r \in Requests : upload_claim(r)

SpecWorkers == Init /\ [][NextWorkers]_vars

\* =========================================================== properties
Did(r, step) == step \in Range(log[r])
Classified(r) == Did(r, "classified")
Fields(r) == claim_data[r].fields
VerdictOf(r) == claim_data[r].verdict

\* The rules of the classifier as the documentation states them, on the
\* fields as they are.
HospitalUnknown(f, hospitals) ==
    f.hospital # <<>> /\ \A i \in 1..Len(hospitals) : hospitals[i] # f.hospital
MatchingRows(f, diseases) ==
    {i \in 1..Len(diseases) : lower(diseases[i].Disease) = lower(f.disease)}
DiseaseUnknown(f, diseases) ==
    f.disease # <<>> /\ MatchingRows(f, diseases) = {}
MatchedTreatments(f, diseases) ==
    LET first == CHOOSE i \in MatchingRows(f, diseases) :
                     \A j \in MatchingRows(f, diseases) : i <= j
        parts == split(diseases[first].Treatment, ",")
    IN  {lower(strip(parts[k])) : k \in 1..Len(parts)}
TreatmentMismatch(f, diseases) ==
    /\ f.disease # <<>>
    /\ MatchingRows(f, diseases) # {}
    /\ f.treatment # <<>>
    /\ lower(f.treatment) \notin MatchedTreatments(f, diseases)
FirstMatchingRule(f, hospitals, diseases) ==
    CASE HospitalUnknown(f, hospitals) -> Verdict(Fraudulent, HospitalReason)
      [] ~HospitalUnknown(f, hospitals) /\ DiseaseUnknown(f, diseases)
            -> Verdict(Fraudulent, DiseaseReason)
      [] /\ ~HospitalUnknown(f, hospitals)
         /\ ~DiseaseUnknown(f, diseases)
         /\ TreatmentMismatch(f, diseases)
            -> Verdict(Fraudulent, TreatmentReason)
      [] /\ ~HospitalUnknown(f, hospitals)
         /\ ~DiseaseUnknown(f, diseases)
         /\ ~TreatmentMismatch(f, diseases)
         /\ f.amount > 500000
            -> Verdict(Suspicious, AmountReason)
      [] OTHER -> Verdict(Clean, CleanReason)

\* C1: the verdict of every classified claim record is the verdict of the
\* first matching rule of the ordered chain hospital, disease, treatment,
\* amount, clean, under the tables in force.
C1_FirstMatchingRuleWins ==
    \A r \in Requests :
        Classified(r) =>
            /\ VerdictOf(r) = FirstMatchingRule(Fields(r), hospitals_df, diseases_df)
            /\ response[r].extractedData.verdict = VerdictOf(r)

\* C1 witness: an unknown hospital, an unknown disease and an amount above
\* the threshold together, classified as the hospital rule.
C1_Witness ==
    \E r \in Requests :
        /\ Classified(r)
        /\ HospitalUnknown(Fields(r), hospitals_df)
        /\ DiseaseUnknown(Fields(r), diseases_df)
        /\ Fields(r).amount > 500000
        /\ VerdictOf(r) = Verdict(Fraudulent, HospitalReason)

\* C2: an empty hospital never gives the hospital reason, an empty disease
\* never the disease nor the treatment reason, an empty treatment never the
\* treatment reason.
C2_EmptyFieldSkipsItsCheck ==
    \A r \in Requests :
        Classified(r) =>
            /\ Fields(r).hospital = <<>>
                  => VerdictOf(r).fraudReason # HospitalReason
            /\ Fields(r).disease = <<>>
                  => VerdictOf(r).fraudReason \notin {DiseaseReason, TreatmentReason}
            /\ Fields(r).treatment = <<>>
                  => VerdictOf(r).fraudReason # TreatmentReason

\* C2 witness: a text whose hospital capture is white space only and whose
\* disease is known, with no treatment found: all three checks are skipped
\* or passed although the tables hold no empty name.
C2_Witness ==
    \E r \in Requests :
        /\ Classified(r)
        /\ text[r].hospital_match.matched
        /\ Fields(r).hospital = <<>>
        /\ Fields(r).disease # <<>>
        /\ Fields(r).treatment = <<>>
        /\ VerdictOf(r).fraudStatus # Fraudulent

\* C3: with a hospital of the table and an empty disease the verdict is
\* never fraudulent, whatever the treatment: suspicious exactly above the
\* threshold, clean otherwise.
C3_KnownHospitalNoDisease ==
    \A r \in Requests :
        (/\ Classified(r)
         /\ Fields(r).hospital \in Range(hospitals_df)
         /\ Fields(r).disease = <<>>)
        => /\ VerdictOf(r).fraudStatus # Fraudulent
           /\ VerdictOf(r).fraudStatus = Suspicious <=> Fields(r).amount > 500000
           /\ VerdictOf(r).fraudStatus = Clean <=> Fields(r).amount <= 500000

\* C3 witness: a known hospital, no disease, and a treatment that is valid
\* for no disease of the table.
C3_Witness ==
    \E r \in Requests :
        /\ Classified(r)
        /\ Fields(r).hospital \in Range(hospitals_df)
        /\ Fields(r).disease = <<>>
        /\ Fields(r).treatment # <<>>
        /\ \A i \in 1..Len(diseases_df) :
              lower(Fields(r).treatment) \notin valid_treatments(diseases_df[i].Treatment)
        /\ Fields(r).amount > 500000
        /\ VerdictOf(r).fraudStatus = Suspicious

NoFraudRule(f, hospitals, diseases) ==
    /\ ~HospitalUnknown(f, hospitals)
    /\ ~DiseaseUnknown(f, diseases)
    /\ ~TreatmentMismatch(f, diseases)

\* C4: when no fraud rule fires, the verdict is suspicious if and only if
\* the amount is above 500000: 500001 is suspicious with the amount reason,
\* 500000 is clean.
C4_StrictThreshold ==
    \A r \in Requests :
        (Classified(r) /\ NoFraudRule(Fields(r), hospitals_df, diseases_df))
        => /\ Fields(r).amount >= 0
           /\ VerdictOf(r).fraudStatus = Suspicious <=> Fields(r).amount > 500000
           /\ Fields(r).amount = 500001
                 => VerdictOf(r) = Verdict(Suspicious, AmountReason)
           /\ Fields(r).amount = 500000
                 => VerdictOf(r) = Verdict(Clean, CleanReason)

\* C4 witness: an amount of exactly 500000 with no fraud rule firing.
C4_Witness ==
    \E r \in Requests :
        /\ Classified(r)
        /\ NoFraudRule(Fields(r), hospitals_df, diseases_df)
        /\ Fields(r).hospital # <<>>
        /\ Fields(r).amount = 500000
        /\ VerdictOf(r) = Verdict(Clean, CleanReason)

TempPath(r) == temp_file_path(upload[r].filename)

NoDuplicates(s) == Cardinality(Range(s)) = Len(s)

\* C6: a finished request has exactly one of three outcomes: 400 with the
\* extraction detail exactly when the extracted text was empty, and then
\* nothing was parsed or classified; 500 exactly when another exception
\* left the try block; otherwise 200 with the six fields and the verdict.
\* No step is taken twice.
C6_ThreeOutcomes ==
    \A r \in Requests :
        pc[r] = "done" =>
            LET emptyText == Did(r, "extracted") /\ text[r].empty
                otherError == raised[r].type \notin {"none", "HTTPException"}
            IN  /\ response[r].status_code \in {200, 400, 500}
                /\ emptyText <=> response[r].status_code = 400
                /\ emptyText =>
                      /\ response[r].detail = ExtractionDetail
                      /\ ~Did(r, "parsed")
                      /\ ~Classified(r)
                      /\ claim_data[r] = NoClaimData
                /\ otherError <=> response[r].status_code = 500
                /\ (~emptyText /\ ~otherError) =>
                      /\ response[r].status_code = 200
                      /\ response[r].extractedData = claim_data[r]
                      /\ VerdictOf(r).fraudStatus \in {Clean, Suspicious, Fraudulent}
                      /\ VerdictOf(r).fraudReason # ""
                /\ NoDuplicates(log[r])

\* C6 witness: an image uploaded under a .pdf name: the PDF extractor fails
\* on it internally and the request ends with the 400.
C6_Witness ==
    \E r \in Requests :
        /\ pc[r] = "done"
        /\ upload[r].document.format = "image"
        /\ ~upload[r].document.text.empty
        /\ Did(r, "extracted")
        /\ response[r].status_code = 400
        /\ response[r].detail = ExtractionDetail

\* What a request gets when it is the only one: the pipeline on its own
\* document.
SoloResponse(u, hospitals, diseases) ==
    LET path == temp_file_path(u.filename)
        txt == extract_text({[path |-> path, content |-> u.document]}, u.filename)
        a == amount_of(txt)
        f == parse_fields(txt, a.value)
    IN  IF open_fails(path) THEN ErrorResponse(HTTPException(500, UnexpectedDetail))
        ELSE IF txt.empty THEN ErrorResponse(HTTPException(400, ExtractionDetail))
        ELSE IF a.exc # NoError THEN ErrorResponse(HTTPException(500, UnexpectedDetail))
        ELSE JSONResponse([fields |-> f,
                           verdict |-> check_fraud(f, hospitals, diseases)])

\* C7: under every interleaving of the steps of the requests, a finished
\* request has read its own document and has the outcome it gets alone.
C7_RequestsIndependent ==
    \A r \in Requests :
        pc[r] = "done" =>
            /\ Did(r, "extracted") =>
                  text[r] = extract_text(
                      {[path |-> TempPath(r), content |-> upload[r].document]},
                      upload[r].filename)
            /\ response[r] = SoloResponse(upload[r], hospitals_df, diseases_df)

StartupHospitals ==
    IF load_hospitals(hospital_source).raised \/ load_diseases(disease_source).raised
    THEN EmptyHospitals ELSE load_hospitals(hospital_source).value
StartupDiseases ==
    IF load_hospitals(hospital_source).raised \/ load_diseases(disease_source).raised
    THEN EmptyDiseases ELSE load_diseases(disease_source).value

\* C8: while serving, the two tables keep their startup value, and any two
\* classified requests with equal fields have equal verdicts, whatever ran
\* between them.
C8_ClassificationPure ==
    main = "serving" =>
        /\ hospitals_df = StartupHospitals
        /\ diseases_df = StartupDiseases
        /\ \A r, q \in Requests :
              (Classified(r) /\ Classified(q) /\ Fields(r) = Fields(q))
              => VerdictOf(r) = VerdictOf(q)

\* C8 witness: two requests with the same fields, both classified as the
\* unknown-hospital fraud, and a health request answered.
C8_Witness ==
    /\ health.status = "healthy"
    /\ \E r, q \in Requests :
          /\ r # q
          /\ pc[r] = "done" /\ pc[q] = "done"
          /\ Classified(r) /\ Classified(q)
          /\ Fields(r) = Fields(q)
          /\ VerdictOf(r).fraudReason = HospitalReason
          /\ VerdictOf(q).fraudReason = HospitalReason

\* C9: a request whose extracted text is not empty ends as a success, with
\* an amount that is a non-negative integer.
C9_ParsingNeverAborts ==
    \A r \in Requests :
        (pc[r] = "done" /\ Did(r, "extracted") /\ ~text[r].empty)
        => /\ response[r].status_code = 200
           /\ Classified(r)
           /\ Fields(r).amount >= 0

\* C10: a table whose source is missing or unreadable is the 5-entry mock
\* table; the except branch of the startup load is never taken and no table
\* is the empty one; the health answer counts the mock rows.
C10_LoadAbsorbsFailure ==
    main = "serving" =>
        /\ ~startup_failed
        /\ hospitals_df # EmptyHospitals
        /\ diseases_df # EmptyDiseases
        /\ hospital_source \in {"missing", "unreadable"}
              => /\ hospitals_df = FallbackHospitals
                 /\ Len(hospitals_df) = 5
                 /\ health.status = "healthy" => health.hospitals_count = 5
        /\ disease_source \in {"missing", "unreadable"}
              => /\ diseases_df = FallbackDiseases
                 /\ Len(diseases_df) = 5
                 /\ health.status = "healthy" => health.diseases_count = 5

\* C10 witness: the hospital sheet unreadable and the disease sheet
\* missing, and a later request answered with a success.
C10_Witness ==
    /\ main = "serving"
    /\ hospital_source = "unreadable"
    /\ disease_source = "missing"
    /\ health.status = "healthy"
    /\ \E r \in Requests :
          /\ pc[r] = "done"
          /\ response[r].status_code = 200
          /\ VerdictOf(r) = Verdict(Clean, CleanReason)

====
